---- MODULE Spec2Model ----
(***************************************************************************)
(* TrekTrack: the ingestion pipeline (App.processFiles), the collection    *)
(* operations (deletePhoto, handleClearAll), the selection state           *)
(* (activePhotoId and the handlers that set it), the gallery (Gallery) and *)
(* the playback walk of the map (Map.runPlayback and the isPlaying         *)
(* effect), as one state machine, with the ordered views and the           *)
(* statistics (App.stats) as operators on its state.                       *)
(*                                                                         *)
(* An optional JavaScript value is a sequence of length 0 (undefined) or 1 *)
(* (the value).  An id is a positive number; NoId is undefined.            *)
(***************************************************************************)
EXTENDS Integers, Sequences, FiniteSets, Bags, TLC

VARIABLES
    photos,         \* App: useState<TrekPhoto[]>([])
    activePhotoId,  \* App: useState<string>()
    isGalleryOpen,  \* App: useState(false)
    galleryIndex,   \* App: useState(0)
    isConverting,   \* App: useState(false)
    index,          \* Gallery: useState(initialIndex); 0 while unmounted
    isPlaying,      \* Map: useState(false)
    playbackRef,    \* Map: useRef<number | null>(null), 0 is null
    walks,          \* the runPlayback calls suspended in their dwell timer,
                    \* in the order their timers are due
    calls,          \* the processFiles calls made so far, in call order
    revoked,        \* the display handles given to URL.revokeObjectURL, a bag:
                    \* each with the number of times it was given
    lastOp,         \* history: the operation the last step performed
    tour            \* history: the ordered waypoints at the last start of
                    \* playback and the waypoints walks selected since

vars == <<photos, activePhotoId, isGalleryOpen, galleryIndex, isConverting,
          index, isPlaying, playbackRef, walks, calls, revoked, lastOp, tour>>

\* ------------------------------------------------------------------ bounds

\* processFiles calls in one run
MaxCalls == 2
\* runPlayback calls suspended at the same time
MaxWalks == 2
\* processFiles calls in one run of the playback and selection machines
MaxUploads == 1
\* files of the upload a trek is computed from
MaxTrek == 3

\* ------------------------------------------------------ optional values

Undefined == <<>>
Some(x) == <<x>>
IsDefined(o) == o # <<>>
Get(o) == o[1]
NoId == 0

\* ------------------------------------------------------------ the files

\* The tags ExifReader.load gives for a file, as far as the extractors read
\* them.  A DateTimeOriginal description is well formed or not; ms is the
\* instant a well-formed one denotes.
Tags(lat, lng, alt, date, model) ==
    [GPSLatitude |-> lat, GPSLongitude |-> lng, GPSAltitude |-> alt,
     DateTimeOriginal |-> date, Model |-> model]

DateString(ms) == [wellFormed |-> TRUE, ms |-> ms]

\* A file: name and its suffix, declared type, what ExifReader.load does
\* (Undefined: it throws), whether heic2any resolves and whether the
\* FileReader loads.
FileA ==
    [name |-> "a.jpg", suffix |-> ".jpg", type |-> "image/jpeg",
     exif |-> Some(Tags(Some(10), Some(20), Some(150), Some(DateString(2000)), Some("X1"))),
     transcodes |-> TRUE, loads |-> TRUE]
FileB ==
    [name |-> "b.HEIC", suffix |-> ".HEIC", type |-> "image/heic",
     exif |-> Some(Tags(Some(11), Some(21), Some(90), Some(DateString(1000)), Some("X2"))),
     transcodes |-> TRUE, loads |-> TRUE]
FileC ==
    [name |-> "c.jpg", suffix |-> ".jpg", type |-> "image/jpeg",
     exif |-> Undefined,
     transcodes |-> TRUE, loads |-> TRUE]
FileD ==
    [name |-> "d.heif", suffix |-> ".heif", type |-> "image/heif",
     exif |-> Some(Tags(Some(12), Some(22), Undefined, Undefined, Undefined)),
     transcodes |-> FALSE, loads |-> TRUE]
FileE ==
    [name |-> "e.png", suffix |-> ".png", type |-> "image/png",
     exif |-> Some(Tags(Undefined, Undefined, Undefined, Undefined, Some("X3"))),
     transcodes |-> TRUE, loads |-> FALSE]

\* Files of a trek.  A number with a fractional part is kept in tenths: the
\* altitude 1506 is 150.6 where 150 is 15.0.
FileF ==
    [name |-> "f.jpg", suffix |-> ".jpg", type |-> "image/jpeg",
     exif |-> Some(Tags(Some(13), Some(23), Undefined, Undefined, Some("X1"))),
     transcodes |-> TRUE, loads |-> TRUE]
FileG ==
    [name |-> "g.jpg", suffix |-> ".jpg", type |-> "image/jpeg",
     exif |-> Some(Tags(Some(14), Some(24), Some(1506), Some(DateString(91000)), Some("X1"))),
     transcodes |-> TRUE, loads |-> TRUE]
FileH ==
    [name |-> "h.jpg", suffix |-> ".jpg", type |-> "image/jpeg",
     exif |-> Some(Tags(Some(15), Some(25), Some(3004), Some(DateString(500)), Some("X1"))),
     transcodes |-> TRUE, loads |-> TRUE]

TrekFiles == {FileA, FileB, FileC, FileF, FileG, FileH}

\* Files of a route along the equator, one degree of longitude apart.
FileP ==
    [name |-> "p.jpg", suffix |-> ".jpg", type |-> "image/jpeg",
     exif |-> Some(Tags(Some(0), Some(0), Undefined, Some(DateString(3000)), Some("X1"))),
     transcodes |-> TRUE, loads |-> TRUE]
FileQ ==
    [name |-> "q.jpg", suffix |-> ".jpg", type |-> "image/jpeg",
     exif |-> Some(Tags(Some(0), Some(1), Undefined, Some(DateString(4000)), Some("X1"))),
     transcodes |-> TRUE, loads |-> TRUE]

RouteFiles == {FileA, FileB, FileC, FileP, FileQ}

\* A file whose DateTimeOriginal is not a date.
MalformedDate == [wellFormed |-> FALSE, ms |-> 0]

FileM ==
    [name |-> "m.jpg", suffix |-> ".jpg", type |-> "image/jpeg",
     exif |-> Some(Tags(Some(12), Some(22), Some(200), Some(MalformedDate), Some("X1"))),
     transcodes |-> TRUE, loads |-> TRUE]

ExportFiles == {FileA, FileB, FileC, FileF, FileM}

\* Files at the zero of a scale: an altitude of 0 m at the time 0, the start
\* of 1970, and an altitude of 0.4 m.
FileZ ==
    [name |-> "z.jpg", suffix |-> ".jpg", type |-> "image/jpeg",
     exif |-> Some(Tags(Some(10), Some(20), Some(0), Some(DateString(0)), Some("X1"))),
     transcodes |-> TRUE, loads |-> TRUE]
FileN ==
    [name |-> "n.jpg", suffix |-> ".jpg", type |-> "image/jpeg",
     exif |-> Some(Tags(Some(11), Some(21), Some(4), Some(DateString(60000)), Some("X1"))),
     transcodes |-> TRUE, loads |-> TRUE]

ZeroFiles == {FileA, FileC, FileF, FileM, FileN, FileZ}

\* The file sequences handed to processFiles.
IngestInputs ==
    { <<>>,
      <<FileA, FileB>>,
      <<FileD, FileA>>,
      <<FileB, FileE, FileC>> }

\* ------------------------------------------------------- exifService

\* String.prototype.toLowerCase on the suffixes in use.
ToLowerCase(s) ==
    CASE s = ".HEIC" -> ".heic"
      [] s = ".HEIF" -> ".heif"
      [] OTHER -> s

\* file.name.toLowerCase().endsWith('.heic') || ...endsWith('.heif')
IsHeic(file) == ToLowerCase(file.suffix) \in {".heic", ".heif"}

\* new Date(dateStr): an Invalid Date (nan) for a malformed string.
NewDate(dateStr) ==
    IF dateStr.wellFormed THEN [nan |-> FALSE, ms |-> dateStr.ms]
                          ELSE [nan |-> TRUE, ms |-> 0]

\* extractGpsData: undefined when the reader throws or a coordinate is
\* missing; alt goes through `alt ? Number(alt) : undefined`.
extractGpsData(file) ==
    IF ~IsDefined(file.exif) THEN Undefined
    ELSE LET tags == Get(file.exif) IN
         IF IsDefined(tags.GPSLatitude) /\ IsDefined(tags.GPSLongitude)
         THEN Some([lat |-> Get(tags.GPSLatitude),
                    lng |-> Get(tags.GPSLongitude),
                    alt |-> IF IsDefined(tags.GPSAltitude) /\ Get(tags.GPSAltitude) # 0
                            THEN tags.GPSAltitude ELSE Undefined,
                    timestamp |-> IF IsDefined(tags.DateTimeOriginal)
                                  THEN Some(NewDate(Get(tags.DateTimeOriginal)))
                                  ELSE Undefined])
         ELSE Undefined

\* extractCameraMetadata: {} when the reader throws.
extractCameraMetadata(file) ==
    IF ~IsDefined(file.exif) THEN [model |-> Undefined]
    ELSE [model |-> Get(file.exif).Model]

\* ------------------------------------------------------- processFiles

\* Mutant: an id made of the position of the file in its batch.
IdFromIndex(c, i) == i

\* Math.random().toString(36).substr(2, 9) of the task of file i of call c:
\* a freshly drawn value, taken to be one no other task draws.
NewId(c, i) == c * 10 + i

\* Mutant: extractGpsData without its try/catch, so that a reader error
\* rejects the task's first await.
Stage1RejectsOnReaderError(file) ==
    (IsHeic(file) => file.transcodes) /\ IsDefined(file.exif)

\* The first await of a per-file task, Promise.all([extractGpsData,
\* extractCameraMetadata, heic2any or the file]): the extractors never
\* reject, heic2any may.
Stage1Resolves(file) == IsHeic(file) => file.transcodes

\* The second await, fileToBase64: reader.onerror rejects.
Stage2Resolves(file) == file.loads

\* Mutant: a per-file task without its catch block.
CatchRethrows == "throw"

\* What a per-file task settles to when an await of it rejects:
\* `catch (err) { console.error(...); return null; }`.
CatchBlock == "null"

\* The TrekPhoto a task returns; url is the handle of URL.createObjectURL.
TrekPhoto(c, i, file) ==
    [id |-> NewId(c, i),
     name |-> file.name,
     url |-> NewId(c, i),
     base64 |-> file.name,
     location |-> extractGpsData(file),
     camera |-> extractCameraMetadata(file),
     mimeType |-> IF IsHeic(file) THEN "image/jpeg" ELSE file.type]

\* The state of a per-file task after its pending await settles.
TaskAfter(st, file) ==
    IF st = "s1"
    THEN IF Stage1Resolves(file) THEN "s2" ELSE CatchBlock
    ELSE IF Stage2Resolves(file) THEN "photo" ELSE CatchBlock

Settled(tasks) == \A i \in DOMAIN tasks : tasks[i] \in {"photo", "null"}

\* Mutant: results collected in the order the tasks were written back,
\* last file first.
RECURSIVE validNewPhotosReversed(_, _, _)
validNewPhotosReversed(c, call, n) ==
    IF n = 0 THEN <<>>
    ELSE LET rest == validNewPhotosReversed(c, call, n - 1) IN
         IF call.tasks[n] = "photo"
         THEN <<TrekPhoto(c, n, call.files[n])>> \o rest
         ELSE rest

RECURSIVE validNewPhotos(_, _, _)
\* results.filter(p => p !== null), in the order of the files
validNewPhotos(c, call, n) ==
    IF n = 0 THEN <<>>
    ELSE LET front == validNewPhotos(c, call, n - 1) IN
         IF call.tasks[n] = "photo"
         THEN Append(front, TrekPhoto(c, n, call.files[n]))
         ELSE front

\* ------------------------------------------------------ the ordered views

\* Mutant: a missing timestamp sorts after every timestamp in use.
TimeKeyMissingLast(p) ==
    IF ~IsDefined(p.location) THEN 100000
    ELSE IF ~IsDefined(Get(p.location).timestamp) THEN 100000
    ELSE IF Get(Get(p.location).timestamp).nan THEN 0
    ELSE Get(Get(p.location).timestamp).ms

\* a.location?.timestamp?.getTime() || 0
TimeKey(p) ==
    IF ~IsDefined(p.location) THEN 0
    ELSE IF ~IsDefined(Get(p.location).timestamp) THEN 0
    ELSE IF Get(Get(p.location).timestamp).nan THEN 0
    ELSE Get(Get(p.location).timestamp).ms

\* Mutant: a sort that puts a photo before those of equal key.
RECURSIVE SortUnstable(_)
SortUnstable(s) ==
    IF s = <<>> THEN <<>>
    ELSE LET front == SortUnstable(SubSeq(s, 1, Len(s) - 1))
             p == s[Len(s)]
             k == Cardinality({j \in DOMAIN front : TimeKey(front[j]) - TimeKey(p) < 0})
         IN SubSeq(front, 1, k) \o <<p>> \o SubSeq(front, k + 1, Len(front))

\* Array.prototype.sort with (a, b) => key(a) - key(b): stable.
RECURSIVE SortByTime(_)
SortByTime(s) ==
    IF s = <<>> THEN <<>>
    ELSE LET front == SortByTime(SubSeq(s, 1, Len(s) - 1))
             p == s[Len(s)]
             k == Cardinality({j \in DOMAIN front : TimeKey(front[j]) - TimeKey(p) <= 0})
         IN SubSeq(front, 1, k) \o <<p>> \o SubSeq(front, k + 1, Len(front))

\* Mutant: a filter that lets every photo through.
AnyPhoto(p) == TRUE

\* p => p.location
HasLocation(p) == IsDefined(p.location)

\* App: sortedPhotos
sortedPhotos == SortByTime(photos)

\* Map: photos.filter(p => p.location).sort(...)
validPhotos == SortByTime(SelectSeq(photos, HasLocation))

Ids(s) == [i \in DOMAIN s |-> s[i].id]
IdSet(s) == {s[i].id : i \in DOMAIN s}

\* findIndex, 0-based; -1 when absent
FindIndex(s, id) ==
    IF id \in IdSet(s) THEN (CHOOSE i \in DOMAIN s : s[i].id = id) - 1 ELSE -1

\* ------------------------------------------------------------- the state

Init ==
    /\ photos = <<>>
    /\ activePhotoId = NoId
    /\ isGalleryOpen = FALSE
    /\ galleryIndex = 0
    /\ isConverting = FALSE
    /\ index = 0
    /\ isPlaying = FALSE
    /\ playbackRef = 0
    /\ walks = <<>>
    /\ calls = <<>>
    /\ revoked = EmptyBag
    /\ lastOp = [op |-> "init"]
    /\ tour = [trek |-> <<>>, selected |-> <<>>, cancelled |-> FALSE]

\* --------------------------------------------------------------- ingestion

\* processFiles up to its first await: the early return on an empty
\* sequence, setIsConverting(true), and every per-file task started.
processFiles(files) ==
    IF Len(files) = 0
    THEN UNCHANGED <<isConverting, calls>>
    ELSE /\ isConverting' = TRUE
         /\ calls' = Append(calls, [files |-> files,
                                    tasks |-> [i \in DOMAIN files |-> "s1"],
                                    status |-> "running"])

\* The file input, rendered only while !isConverting.
HandleFileUpload ==
    /\ ~isConverting
    /\ Len(calls) < MaxCalls
    /\ \E files \in IngestInputs :
          /\ processFiles(files)
          /\ lastOp' = [op |-> "processFiles", src |-> "input", n |-> Len(files)]
    /\ UNCHANGED <<photos, activePhotoId, isGalleryOpen, galleryIndex, index,
                   isPlaying, playbackRef, walks, revoked, tour>>

\* The aside's onDrop, with no guard on isConverting.
OnDrop ==
    /\ Len(calls) < MaxCalls
    /\ \E files \in IngestInputs :
          /\ processFiles(files)
          /\ lastOp' = [op |-> "processFiles", src |-> "drop", n |-> Len(files)]
    /\ UNCHANGED <<photos, activePhotoId, isGalleryOpen, galleryIndex, index,
                   isPlaying, playbackRef, walks, revoked, tour>>

\* What the step that settles task i of call c does to the call: the task
\* moves on; a task that rejects rejects Promise.all(processPromises) and
\* with it the call; the call is done once every task has settled.
CallAfter(call, i) ==
    LET tasks == [call.tasks EXCEPT ![i] = TaskAfter(call.tasks[i], call.files[i])]
    IN [call EXCEPT !.tasks = tasks,
                    !.status = IF tasks[i] = "throw" THEN "rejected"
                               ELSE IF Settled(tasks) THEN "done"
                               ELSE "running"]

\* Mutant: setPhotos called by each task as it returns its photo.
PhotosAfterEachTask(c, call) ==
    LET valid == validNewPhotos(c, call, Len(call.files))
        NotYet(p) == p.id \notin IdSet(photos)
    IN photos \o SelectSeq(valid, NotYet)

\* setPhotos(prev => [...prev, ...validNewPhotos]) of call c, once
\* `await Promise.all(processPromises)` has returned.
PhotosAfter(c, call) ==
    IF call.status = "done"
    THEN photos \o validNewPhotos(c, call, Len(call.files))
    ELSE photos

\* Mutant: the flag is never cleared.
ConvertingForgotten(call) == isConverting

\* setIsConverting(false), the last statement of processFiles.
ConvertingAfter(call) ==
    IF call.status = "done" THEN FALSE ELSE isConverting

\* Mutant: setPhotos(validNewPhotos), an append that writes the batch over
\* the collection instead of updating the previous value.
TaskSettlesOverwrites(c, i) ==
    /\ calls[c].status = "running"
    /\ calls[c].tasks[i] \in {"s1", "s2"}
    /\ LET call == CallAfter(calls[c], i) IN
          /\ calls' = [calls EXCEPT ![c] = call]
          /\ photos' = IF call.status = "done"
                       THEN validNewPhotos(c, call, Len(call.files))
                       ELSE photos
          /\ isConverting' = ConvertingAfter(call)
          /\ lastOp' = IF call.status = "done"
                       THEN [op |-> "append", call |-> c, before |-> Len(photos)]
                       ELSE [op |-> "task", call |-> c]
    /\ UNCHANGED <<activePhotoId, isGalleryOpen, galleryIndex, index,
                   isPlaying, playbackRef, walks, revoked, tour>>

\* One await of one per-file task settles; the continuation runs to the
\* task's next await or to its end, and when it was the last task of the
\* call, on through the rest of processFiles.
TaskSettles(c, i) ==
    /\ calls[c].status = "running"
    /\ calls[c].tasks[i] \in {"s1", "s2"}
    /\ LET call == CallAfter(calls[c], i) IN
          /\ calls' = [calls EXCEPT ![c] = call]
          /\ photos' = PhotosAfter(c, call)
          /\ isConverting' = ConvertingAfter(call)
          /\ lastOp' = IF call.status = "done"
                       THEN [op |-> "append", call |-> c, before |-> Len(photos)]
                       ELSE [op |-> "task", call |-> c]
    /\ UNCHANGED <<activePhotoId, isGalleryOpen, galleryIndex, index,
                   isPlaying, playbackRef, walks, revoked, tour>>

\* ---------------------------------------------------------- the collection

\* Mutant: deletePhoto revokes the handle and keeps the photo.
RemoveNothing(s, id) == s

Remove(s, id) == SelectSeq(s, LAMBDA p : p.id # id)

\* Mutant: a release that gives the handle to revokeObjectURL twice.
RevokeTwice(bag, url) == bag (+) SetToBag({url}) (+) SetToBag({url})

\* URL.revokeObjectURL(url)
revokeObjectURL(bag, url) == bag (+) SetToBag({url})

RECURSIVE RevokeEach(_, _)
\* photos.forEach(p => { if (p.url) URL.revokeObjectURL(p.url) })
RevokeEach(bag, s) ==
    IF s = <<>> THEN bag
    ELSE RevokeEach(revokeObjectURL(bag, Head(s).url), Tail(s))

\* Mutant: a delete that forgets to clear the selection.
DeleteKeepsSelection(id) ==
    /\ id \in IdSet(photos)
    /\ photos' = Remove(photos, id)
    /\ revoked' = revokeObjectURL(revoked, photos[FindIndex(photos, id) + 1].url)
    /\ lastOp' = [op |-> "deletePhoto", id |-> id]
    /\ UNCHANGED <<activePhotoId, isGalleryOpen, galleryIndex, isConverting, index,
                   isPlaying, playbackRef, walks, calls, tour>>

\* deletePhoto, from the delete button of a list item.
deletePhoto(id) ==
    /\ id \in IdSet(photos)
    /\ photos' = Remove(photos, id)
    /\ revoked' = revokeObjectURL(revoked, photos[FindIndex(photos, id) + 1].url)
    /\ activePhotoId' = IF activePhotoId = id THEN NoId ELSE activePhotoId
    /\ lastOp' = [op |-> "deletePhoto", id |-> id]
    /\ UNCHANGED <<isGalleryOpen, galleryIndex, isConverting, index,
                   isPlaying, playbackRef, walks, calls, tour>>

\* handleClearAll with the confirmation accepted; the button is rendered
\* while photos.length > 0.  Closing the gallery unmounts it.
handleClearAll ==
    /\ Len(photos) > 0
    /\ revoked' = RevokeEach(revoked, photos)
    /\ photos' = <<>>
    /\ activePhotoId' = NoId
    /\ isGalleryOpen' = FALSE
    /\ galleryIndex' = 0
    /\ index' = 0
    /\ lastOp' = [op |-> "handleClearAll"]
    /\ UNCHANGED <<isConverting, isPlaying, playbackRef, walks, calls, tour>>

\* -------------------------------------------------------------- selection

\* The state the selection handlers write.
Selection ==
    [activePhotoId |-> activePhotoId, isGalleryOpen |-> isGalleryOpen,
     galleryIndex |-> galleryIndex, index |-> index]

SetSelection(r) ==
    /\ activePhotoId' = r.activePhotoId
    /\ isGalleryOpen' = r.isGalleryOpen
    /\ galleryIndex' = r.galleryIndex
    /\ index' = r.index

\* setGalleryIndex(idx); setIsGalleryOpen(true): a gallery that mounts
\* starts at initialIndex, a mounted one keeps its index.
OpenGalleryAt(sel, idx) ==
    [sel EXCEPT !.galleryIndex = idx,
                !.isGalleryOpen = TRUE,
                !.index = IF sel.isGalleryOpen THEN sel.index ELSE idx]

\* The markers of the map: one per photo with a location.
Markers == IdSet(validPhotos)

\* Map: sequenceNumber = idx + 1 of the marker of a photo with a location
sequenceNumber(id) == FindIndex(validPhotos, id) + 1

\* Gallery: Log Asset #{index + 1}, the counter of the photo on display
LogAssetNumber == index + 1

\* Map: marker.on('click', ...) calls onPhotoSelect, which is
\* setActivePhotoId.
MarkerClickResult(id) == [Selection EXCEPT !.activePhotoId = id]

\* The chart is rendered while stats is not null and it has two points;
\* its points are the photos with a location and an altitude.
HasAltitude(p) == HasLocation(p) /\ IsDefined(Get(p.location).alt)

ChartPoints ==
    LET data == SelectSeq(photos, HasAltitude) IN
    IF Len(validPhotos) >= 2 /\ Len(data) >= 2 THEN IdSet(data) ELSE {}

\* ElevationProfile: onMouseEnter={() => onHover(p.id)}, onHover is
\* setActivePhotoId.
ChartHoverResult(id) == [Selection EXCEPT !.activePhotoId = id]

\* App: the onClick of a list item.
ListItemClickResult(id) ==
    LET sel == [Selection EXCEPT !.activePhotoId = id] IN
    IF activePhotoId = id
    THEN OpenGalleryAt(sel, FindIndex(sortedPhotos, id))
    ELSE sel

\* Mutant: the gallery reports the id at idx of the collection as inserted,
\* not of the sorted list it displays.
ThumbnailClickUnsorted(idx) ==
    [Selection EXCEPT !.index = idx, !.activePhotoId = photos[idx + 1].id]

\* Gallery: a thumbnail's onClick, setIndex(idx); onPhotoChange(p.id).
ThumbnailClickResult(idx) ==
    [Selection EXCEPT !.index = idx, !.activePhotoId = sortedPhotos[idx + 1].id]

\* Mutant: a navigation that stops at the ends of the list.
newIdxClamped(i, n, dir) ==
    IF dir = "next"
    THEN IF i + 1 < n THEN i + 1 ELSE i
    ELSE IF i > 0 THEN i - 1 ELSE i

\* Gallery: navigate(dir), newIdx from index i over n photos
newIdx(i, n, dir) ==
    IF dir = "next"
    THEN (i + 1) % n
    ELSE (i - 1 + n) % n

\* Gallery: navigate(dir), newIdx from the index the gallery holds
NewIdx(dir) == newIdx(index, Len(sortedPhotos), dir)

navigateResult(dir) == ThumbnailClickResult(NewIdx(dir))

Frame == UNCHANGED <<photos, isConverting, isPlaying, playbackRef, walks,
                     calls, revoked, tour>>

MarkerClick ==
    \E id \in Markers :
        /\ SetSelection(MarkerClickResult(id))
        /\ lastOp' = [op |-> "select", src |-> "marker", id |-> id]
        /\ Frame

ChartHover ==
    \E id \in ChartPoints :
        /\ SetSelection(ChartHoverResult(id))
        /\ lastOp' = [op |-> "select", src |-> "chart", id |-> id]
        /\ Frame

\* ElevationProfile: onMouseLeave={() => onHover(undefined)}
ChartLeave ==
    /\ ChartPoints # {}
    /\ SetSelection(ChartHoverResult(NoId))
    /\ lastOp' = [op |-> "chartLeave"]
    /\ Frame

ListItemClick ==
    \E id \in IdSet(photos) :
        /\ SetSelection(ListItemClickResult(id))
        /\ lastOp' = [op |-> "select", src |-> "list", id |-> id]
        /\ Frame

ThumbnailClick ==
    /\ isGalleryOpen
    /\ \E idx \in 0 .. Len(sortedPhotos) - 1 :
          /\ SetSelection(ThumbnailClickResult(idx))
          /\ lastOp' = [op |-> "select", src |-> "gallery",
                        id |-> sortedPhotos[idx + 1].id]
    /\ Frame

navigate ==
    /\ isGalleryOpen
    /\ \E dir \in {"prev", "next"} :
          /\ SetSelection(navigateResult(dir))
          /\ lastOp' = [op |-> "select", src |-> "gallery",
                        id |-> sortedPhotos[NewIdx(dir) + 1].id]
    /\ Frame

\* The Archive button, rendered while photos.length > 0:
\* setIsGalleryOpen(true).
ArchiveButton ==
    /\ Len(photos) > 0
    /\ SetSelection(OpenGalleryAt(Selection, galleryIndex))
    /\ lastOp' = [op |-> "archive"]
    /\ Frame

\* The 'trek-open-gallery' event a marker's popup dispatches.
handleOpenGallery ==
    \E id \in Markers :
        /\ SetSelection(OpenGalleryAt(Selection, FindIndex(sortedPhotos, id)))
        /\ lastOp' = [op |-> "openGallery", id |-> id]
        /\ Frame

\* Gallery: onClose, () => setIsGalleryOpen(false); the gallery unmounts.
onClose ==
    /\ isGalleryOpen
    /\ SetSelection([Selection EXCEPT !.isGalleryOpen = FALSE, !.index = 0])
    /\ lastOp' = [op |-> "onClose"]
    /\ Frame

\* --------------------------------------------------------------- playback

\* Mutant: the effect runs on every call of the setter.
EffectRunsOnEveryCall(value) == TRUE

\* Whether setIsPlaying(value) re-renders the map and so runs the effect on
\* [isPlaying]: a setter given the value the state holds does nothing.
EffectRuns(value) == value # isPlaying

\* The effect: playbackRef.current = 1 before runPlayback(), null otherwise.
RefAfter(value) ==
    IF EffectRuns(value) THEN (IF value THEN 1 ELSE 0) ELSE playbackRef

\* runPlayback up to its first await: nothing for no waypoint; else the
\* first pass of the loop, which checks the ref, selects the first
\* waypoint and suspends on the dwell timer.
runPlayback ==
    LET list == Ids(validPhotos) IN
    IF Len(list) = 0 \/ playbackRef' = 0
    THEN /\ UNCHANGED <<walks, activePhotoId>>
         /\ tour' = [trek |-> list, selected |-> <<>>, cancelled |-> FALSE]
    ELSE /\ walks' = Append(walks, [validPhotos |-> list, i |-> 1, stopped |-> FALSE])
         /\ activePhotoId' = list[1]
         /\ tour' = IF isPlaying
                    THEN [tour EXCEPT !.selected = Append(@, list[1])]
                    ELSE [trek |-> list, selected |-> <<list[1]>>, cancelled |-> FALSE]

\* startPlayback(): setIsPlaying(true).  The Journey/Stop button issues it
\* while it shows Journey; runPlayback issues it again at its line 50.
StartPlayback ==
    /\ Len(walks) < MaxWalks
    /\ isPlaying' = TRUE
    /\ playbackRef' = RefAfter(TRUE)
    /\ IF EffectRuns(TRUE)
       THEN runPlayback
       ELSE UNCHANGED <<walks, activePhotoId, tour>>
    /\ lastOp' = [op |-> "startPlayback", valid |-> ~isPlaying]
    /\ UNCHANGED <<photos, isGalleryOpen, galleryIndex, isConverting, index,
                   calls, revoked>>

\* stopPlayback(): setIsPlaying(false).  The button issues it while it
\* shows Stop; a walk issues it again at its end.  The history marks the
\* walks a stop found running.
StopPlayback ==
    /\ isPlaying' = FALSE
    /\ playbackRef' = RefAfter(FALSE)
    /\ walks' = IF isPlaying
                THEN [k \in DOMAIN walks |-> [walks[k] EXCEPT !.stopped = TRUE]]
                ELSE walks
    /\ tour' = IF isPlaying THEN [tour EXCEPT !.cancelled = TRUE] ELSE tour
    /\ lastOp' = [op |-> "stopPlayback", valid |-> isPlaying, was |-> activePhotoId]
    /\ UNCHANGED <<photos, activePhotoId, isGalleryOpen, galleryIndex,
                   isConverting, index, calls, revoked>>

\* The dwell timer of the walk whose timer is due first fires: the next
\* pass of the loop, or, past the last waypoint or on a null ref, the
\* setIsPlaying(false) that ends runPlayback.
DwellTimer ==
    /\ walks # <<>>
    /\ LET w == Head(walks) IN
       IF w.i < Len(w.validPhotos) /\ playbackRef # 0
       THEN /\ activePhotoId' = w.validPhotos[w.i + 1]
            /\ walks' = Append(Tail(walks), [w EXCEPT !.i = w.i + 1])
            /\ tour' = [tour EXCEPT !.selected = Append(@, w.validPhotos[w.i + 1])]
            /\ lastOp' = [op |-> "select", src |-> "walk",
                          id |-> w.validPhotos[w.i + 1], stopped |-> w.stopped]
            /\ UNCHANGED <<isPlaying, playbackRef>>
       ELSE /\ walks' = Tail(walks)
            /\ isPlaying' = FALSE
            /\ playbackRef' = RefAfter(FALSE)
            /\ lastOp' = [op |-> "walkEnds", idle |-> ~isPlaying,
                          whole |-> w.i = Len(w.validPhotos), stopped |-> w.stopped]
            /\ UNCHANGED <<activePhotoId, tour>>
    /\ UNCHANGED <<photos, isGalleryOpen, galleryIndex, isConverting, index,
                   calls, revoked>>

\* ------------------------------------------------------------- the export

\* exportGPX: sortedPhotos.filter(p => p.location)
exportValidPhotos == SelectSeq(sortedPhotos, HasLocation)

\* Mutant: a document is written for no waypoint at all.
NeverEmpty(valid) == FALSE

\* exportGPX: if (validPhotos.length === 0) return
NothingToExport(valid) == Len(valid) = 0

\* d.toISOString() of a valid date within January 1970: year, month, day,
\* hours, minutes, seconds, milliseconds.
ToISOString(d) ==
    <<1970, 1, 1 + (d.ms \div 86400000), (d.ms \div 3600000) % 24,
      (d.ms \div 60000) % 60, (d.ms \div 1000) % 60, d.ms % 1000>>

\* toISOString throws a RangeError on an Invalid Date.
ToISOStringThrows(d) == d.nan

\* Mutant: every track point carries the place of the first waypoint.
FirstPlace(valid, i) == Get(valid[1].location)

\* exportGPX: p.location of the i-th waypoint written
PlaceOf(valid, i) == Get(valid[i].location)

\* exportGPX: the trkpt of the i-th waypoint; ele and time are written when
\* alt and timestamp are truthy.  No name of the catalogue holds an &.
trkpt(valid, i) ==
    LET location == PlaceOf(valid, i) IN
    [lat |-> location.lat,
     lon |-> location.lng,
     ele |-> IF IsDefined(location.alt) /\ Get(location.alt) # 0
             THEN location.alt ELSE Undefined,
     time |-> IF IsDefined(location.timestamp)
              THEN Some(ToISOString(Get(location.timestamp))) ELSE Undefined,
     name |-> valid[i].name]

\* exportGPX: the forEach throws at the first waypoint with an Invalid Date.
ExportThrows(valid) ==
    \E i \in DOMAIN valid :
        /\ IsDefined(Get(valid[i].location).timestamp)
        /\ ToISOStringThrows(Get(Get(valid[i].location).timestamp))

\* exportGPX, from the export button: the document handed to the browser as
\* a download, if any.  The object URL of the blob is created and revoked
\* within the handler; no state of the component is set.
exportGPX ==
    LET valid == exportValidPhotos IN
    /\ lastOp' =
          [op |-> "exportGPX",
           threw |-> ~NothingToExport(valid) /\ ExportThrows(valid),
           gpx |-> IF NothingToExport(valid) \/ ExportThrows(valid)
                   THEN Undefined
                   ELSE Some([i \in DOMAIN valid |-> trkpt(valid, i)])]
    /\ UNCHANGED <<photos, activePhotoId, isGalleryOpen, galleryIndex,
                   isConverting, index, isPlaying, playbackRef, walks, calls,
                   revoked, tour>>

\* ---------------------------------------------------------------- the map

\* Mutant: the map is framed on no point at all.
AlwaysFits(valid) == FALSE

\* fitAllBounds: if (validPhotos.length === 0) return
NothingToFit(valid) == Len(valid) = 0

\* fitAllBounds: points, the argument of L.latLngBounds
points(valid) ==
    [i \in DOMAIN valid |-> <<Get(valid[i].location).lat, Get(valid[i].location).lng>>]

\* Map: fitAllBounds, from the fit button of the mounted map: the framing
\* request handed to the map by fitBounds, if any.  No state is set.
fitAllBounds ==
    LET valid == SelectSeq(photos, HasLocation) IN
    /\ lastOp' = [op |-> "fitAllBounds",
                  fitBounds |-> IF NothingToFit(valid) THEN Undefined
                                ELSE Some(points(valid))]
    /\ UNCHANGED <<photos, activePhotoId, isGalleryOpen, galleryIndex,
                   isConverting, index, isPlaying, playbackRef, walks, calls,
                   revoked, tour>>

\* ------------------------------------------------------------ the machine

\* The gallery renders photos[index].name: with no such photo the render
\* throws and React unmounts the application.
Crashed == isGalleryOpen /\ index >= Len(sortedPhotos)

Ingestion ==
    \/ HandleFileUpload
    \/ OnDrop
    \/ \E c \in DOMAIN calls : \E i \in DOMAIN calls[c].files : TaskSettles(c, i)

Collection ==
    \/ \E id \in IdSet(photos) : deletePhoto(id)
    \/ handleClearAll

Selecting ==
    \/ MarkerClick
    \/ ChartHover
    \/ ChartLeave
    \/ ListItemClick
    \/ ThumbnailClick
    \/ navigate

GalleryOps ==
    \/ ArchiveButton
    \/ handleOpenGallery
    \/ onClose

Playback ==
    \/ StartPlayback
    \/ StopPlayback
    \/ DwellTimer

Exporting == exportGPX

Framing == fitAllBounds

Next ==
    /\ ~Crashed
    /\ \/ Ingestion \/ Collection \/ Selecting \/ GalleryOps \/ Playback
       \/ Exporting \/ Framing

Spec == Init /\ [][Next]_vars

\* The pipeline and the collection alone: no step of the other parts reads
\* or writes photos, calls, isConverting or revoked.
NextIngest == ~Crashed /\ (Ingestion \/ Collection)

SpecIngest == Init /\ [][NextIngest]_vars

\* The pipeline, with the collection edited and exported meanwhile, where
\* every await of every per-file task settles in the end: a promise that
\* resolves or rejects has its continuation run.
Settles(c, i) ==
    /\ c \in DOMAIN calls
    /\ i \in DOMAIN calls[c].files
    /\ TaskSettles(c, i)

EverySubStepSettles ==
    \A c \in 1 .. MaxUploads :
        \A i \in UNION {DOMAIN files : files \in IngestInputs} :
            WF_vars(Settles(c, i))

NextIngestFair ==
    /\ ~Crashed
    /\ \/ Len(calls) < MaxUploads /\ HandleFileUpload
       \/ Len(calls) < MaxUploads /\ OnDrop
       \/ \E c \in DOMAIN calls : \E i \in DOMAIN calls[c].files : TaskSettles(c, i)
       \/ Collection
       \/ Exporting

SpecIngestFair == Init /\ [][NextIngestFair]_vars /\ EverySubStepSettles

\* Playback over a collection that uploads and deletions change under it,
\* with the map's markers as the other writer of activePhotoId.
NextPlay ==
    /\ ~Crashed
    /\ \/ (Len(calls) < MaxUploads /\ HandleFileUpload)
       \/ \E c \in DOMAIN calls : \E i \in DOMAIN calls[c].files : TaskSettles(c, i)
       \/ \E id \in IdSet(photos) : deletePhoto(id)
       \/ MarkerClick
       \/ Playback

SpecPlay == Init /\ [][NextPlay]_vars

\* Every writer of activePhotoId, in both playback modes, over uploaded
\* collections.
NextSelect ==
    /\ ~Crashed
    /\ \/ (Len(calls) < MaxUploads /\ HandleFileUpload)
       \/ \E c \in DOMAIN calls : \E i \in DOMAIN calls[c].files : TaskSettles(c, i)
       \/ Selecting
       \/ GalleryOps
       \/ StartPlayback
       \/ DwellTimer

SpecSelect == Init /\ [][NextSelect]_vars

\* The map framed while photos are uploaded, selected from the list, opened
\* in the gallery and walked.
NextFit ==
    /\ ~Crashed
    /\ \/ (Len(calls) < MaxUploads /\ HandleFileUpload)
       \/ \E c \in DOMAIN calls : \E i \in DOMAIN calls[c].files : TaskSettles(c, i)
       \/ ListItemClick
       \/ StartPlayback
       \/ DwellTimer
       \/ fitAllBounds

SpecFit == Init /\ [][NextFit]_vars

\* ----------------------------------------------------------- the statistics

\* App: gpsPhotos of stats
gpsPhotos == SortByTime(SelectSeq(photos, HasLocation))

\* Mutant: Math.floor in place of Math.round.
MathFloor(num, den) == num \div den

\* Math.round(num / den) for den > 0: the nearest integer, a half upwards.
MathRound(num, den) == (2 * num + den) \div (2 * den)

Abs(x) == IF x < 0 THEN -x ELSE x

\* The numbers of the distance are kept to eight decimal places: an angle
\* 1745329 is 0.01745329 rad.  Products and quotients are taken in parts so
\* that no intermediate value leaves the 32-bit integers.
Unit == 100000000

\* x * y
Times(x, y) ==
    LET xh == x \div 10000
        xl == x % 10000
        yh == y \div 10000
        yl == y % 10000
    IN (xh * yh) + ((xh * yl + xl * yh) \div 10000) + ((xl * yl) \div Unit)

\* x / y for x >= 0 and y > 0, by long division
RECURSIVE LongDivision(_, _, _)
LongDivision(x, y, places) ==
    IF places = 1 THEN x \div y
    ELSE ((x \div y) * places) + LongDivision((x % y) * 10, y, places \div 10)

Over(x, y) == LongDivision(x, y, Unit)

\* The integer square root of n, by Newton's iteration from above.
RECURSIVE RootFrom(_, _)
RootFrom(n, g) ==
    LET h == (g + (n \div g)) \div 2 IN
    IF h >= g THEN g ELSE RootFrom(n, h)

Root(n) == IF n = 0 THEN 0 ELSE RootFrom(n, 46341)

\* Math.PI
MathPI == 314159265

\* deg * Math.PI / 180
Radians(deg) == (deg * (MathPI \div 180)) + ((deg * (MathPI % 180)) \div 180)

\* Math.sin(x) for -PI <= x <= PI
SinSeries(x) ==
    LET xx == Times(x, x)
        t7 == Unit - (xx \div 210)
        t6 == Unit - (Times(xx, t7) \div 156)
        t5 == Unit - (Times(xx, t6) \div 110)
        t4 == Unit - (Times(xx, t5) \div 72)
        t3 == Unit - (Times(xx, t4) \div 42)
        t2 == Unit - (Times(xx, t3) \div 20)
        t1 == Unit - (Times(xx, t2) \div 6)
    IN Times(x, t1)

MathSin(x) ==
    IF 2 * x > MathPI THEN SinSeries(MathPI - x)
    ELSE IF 2 * x < -MathPI THEN SinSeries((-MathPI) - x)
    ELSE SinSeries(x)

\* Math.cos(x) for -PI/2 <= x <= PI/2
MathCos(x) ==
    LET xx == Times(x, x)
        t7 == Unit - (xx \div 182)
        t6 == Unit - (Times(xx, t7) \div 132)
        t5 == Unit - (Times(xx, t6) \div 90)
        t4 == Unit - (Times(xx, t5) \div 56)
        t3 == Unit - (Times(xx, t4) \div 30)
        t2 == Unit - (Times(xx, t3) \div 12)
    IN Unit - (Times(xx, t2) \div 2)

\* Math.sqrt(x) for x >= 0
MathSqrt(x) ==
    LET y0 == 10000 * Root(x)
        y1 == IF y0 = 0 THEN 0 ELSE (y0 + Over(x, y0)) \div 2
        y2 == IF y1 = 0 THEN 0 ELSE (y1 + Over(x, y1)) \div 2
    IN IF y2 = 0 THEN 0 ELSE (y2 + Over(x, y2)) \div 2

\* Math.atan2(y, x) for y >= 0 and x >= 0, not both 0
AtanSeries(t) ==
    LET tt == Times(t, t)
        t5 == (Unit \div 9) - (Times(tt, Unit) \div 11)
        t4 == (Unit \div 7) - Times(tt, t5)
        t3 == (Unit \div 5) - Times(tt, t4)
        t2 == (Unit \div 3) - Times(tt, t3)
    IN Times(t, Unit - Times(tt, t2))

RECURSIVE Atan(_)
Atan(t) ==
    IF 5 * t > Unit
    THEN 2 * Atan(Over(MathSqrt(Unit + Times(t, t)) - Unit, t))
    ELSE AtanSeries(t)

MathAtan2(y, x) ==
    IF y = 0 THEN 0
    ELSE IF y <= x THEN Atan(Over(y, x))
    ELSE (MathPI \div 2) - Atan(Over(x, y))

\* A JavaScript number that may be NaN.
Num(n) == [nan |-> FALSE, n |-> n]
NaN == [nan |-> TRUE, n |-> 0]

\* d.getTime()
GetTime(d) == IF d.nan THEN NaN ELSE Num(d.ms)

\* Math.round((b - a) / 60000)
RoundedMinutes(a, b) ==
    IF a.nan \/ b.nan THEN NaN ELSE Num(MathRound(b.n - a.n, 60000))

\* Mutant: the altitude of the last waypoint is left out.
LastAltForgotten(gps) == {}

\* stats: the altitudes its loop reads, those of p1 for every pair, and the
\* one read after the loop, that of the last waypoint.
LoopAlts(gps) ==
    {Get(Get(gps[i].location).alt) :
        i \in {j \in 1 .. Len(gps) - 1 : IsDefined(Get(gps[j].location).alt)}}

LastAlt(gps) ==
    LET last == Get(gps[Len(gps)].location) IN
    IF IsDefined(last.alt) THEN {Get(last.alt)} ELSE {}

Max(S) == CHOOSE x \in S : \A y \in S : y <= x

\* maxA !== -Infinity ? Math.round(maxA) : null, in tenths
maxAlt(gps) ==
    LET seen == LoopAlts(gps) \cup LastAlt(gps) IN
    IF seen = {} THEN Undefined ELSE Some(10 * MathRound(Max(seen), 10))

\* first.timestamp && last.timestamp ? Math.round(...) : null
duration(gps) ==
    LET first == Get(gps[1].location).timestamp
        last == Get(gps[Len(gps)].location).timestamp
    IN IF IsDefined(first) /\ IsDefined(last)
       THEN Some(RoundedMinutes(GetTime(Get(first)), GetTime(Get(last))))
       ELSE Undefined

\* Math.sqrt(x * x + y * y) for x >= 0 and y >= 0: a first value from the
\* leading digits, then Newton's iteration.
RECURSIVE Coarse(_, _)
Coarse(x, y) ==
    IF x > 30000 \/ y > 30000 THEN 10 * Coarse(x \div 10, y \div 10)
    ELSE Root((x * x) + (y * y))

Hypot(x, y) ==
    LET Step(h) == (h + Times(x, Over(x, h)) + Times(y, Over(y, h))) \div 2
        h0 == Coarse(x, y)
    IN IF h0 = 0 THEN 0 ELSE Step(Step(h0))

\* stats: R, the radius of the earth in km
R == 6371

\* stats: Math.sqrt(a) of two locations, where
\* a = sin(dLat/2)**2 + cos(lat1) * cos(lat2) * sin(dLon/2)**2.  Between
\* neighbouring waypoints a is far below one, so its root is taken from
\* sin(dLat/2) and sqrt(cos * cos) * sin(dLon/2) and a is its square.
SqrtA(p1, p2) ==
    LET dLat == Radians(p2.lat - p1.lat)
        dLon == Radians(p2.lng - p1.lng)
        cc == Times(MathCos(Radians(p1.lat)), MathCos(Radians(p2.lat)))
    IN Hypot(Abs(MathSin(dLat \div 2)),
             Abs(Times(MathSqrt(cc), MathSin(dLon \div 2))))

\* stats: R * (2 * Math.atan2(Math.sqrt(a), Math.sqrt(1 - a))), in
\* ten-thousandths of a km
Leg(p1, p2) ==
    LET h == SqrtA(p1, p2)
        c == 2 * MathAtan2(h, MathSqrt(Unit - Times(h, h)))
    IN (R * (c \div 10000)) + ((R * (c % 10000)) \div 10000)

\* Mutant: the loop leaves out the last pair.
LastPairSkipped(gps) == Len(gps) - 2

\* stats: for (let i = 0; i < gpsPhotos.length - 1; i++), the last i, from 1
LastPair(gps) == Len(gps) - 1

\* stats: dist after the loop from pair i on
RECURSIVE dist(_, _)
dist(gps, i) ==
    IF i > LastPair(gps) THEN 0
    ELSE Leg(Get(gps[i].location), Get(gps[i + 1].location)) + dist(gps, i + 1)

\* dist.toFixed(2), in hundredths
ToFixed2(x) == MathRound(x, 100)

\* Mutant: statistics for a single waypoint.
TooFewBelowOne(gps) == Len(gps) < 1

\* if (gpsPhotos.length < 2) return null
TooFew(gps) == Len(gps) < 2

\* App: stats, null below two photos with a location.
stats ==
    IF TooFew(gpsPhotos) THEN Undefined
    ELSE Some([distance |-> ToFixed2(dist(gpsPhotos, 1)),
               maxAlt |-> maxAlt(gpsPhotos),
               duration |-> duration(gpsPhotos)])

\* App: {stats.maxAlt || '--'}, the elevation read-out; Undefined is '--'.
ElevationReadout ==
    LET peak == Get(stats).maxAlt IN
    IF IsDefined(peak) /\ Get(peak) # 0 THEN peak ELSE Undefined

\* ------------------------------------------------------------------ a trek

\* The sequences of at most n files of a trek.
RECURSIVE FileSeqs(_)
FileSeqs(n) ==
    IF n = 0 THEN {<<>>}
    ELSE LET shorter == FileSeqs(n - 1) IN
         shorter \cup {Append(s, f) : s \in shorter, f \in TrekFiles}

\* The state after one upload of files that all load, settled and appended.
InitTrek ==
    \E files \in FileSeqs(MaxTrek) :
        /\ photos = [i \in DOMAIN files |-> TrekPhoto(1, i, files[i])]
        /\ calls = IF files = <<>> THEN <<>>
                   ELSE <<[files |-> files,
                           tasks |-> [i \in DOMAIN files |-> "photo"],
                           status |-> "done"]>>
        /\ lastOp = IF files = <<>>
                    THEN [op |-> "processFiles", src |-> "input", n |-> 0]
                    ELSE [op |-> "append", call |-> 1, before |-> 0]
        /\ activePhotoId = NoId
        /\ isGalleryOpen = FALSE
        /\ galleryIndex = 0
        /\ isConverting = FALSE
        /\ index = 0
        /\ isPlaying = FALSE
        /\ playbackRef = 0
        /\ walks = <<>>
        /\ revoked = EmptyBag
        /\ tour = [trek |-> <<>>, selected |-> <<>>, cancelled |-> FALSE]

\* The sequences of at most n files of a catalogue.
RECURSIVE SeqsOf(_, _)
SeqsOf(catalogue, n) ==
    IF n = 0 THEN {<<>>}
    ELSE LET shorter == SeqsOf(catalogue, n - 1) IN
         shorter \cup {Append(s, f) : s \in shorter, f \in catalogue}

\* The state after one upload of the given files, which all load, settled
\* and appended.
Uploaded(files) ==
    /\ photos = [i \in DOMAIN files |-> TrekPhoto(1, i, files[i])]
    /\ calls = IF files = <<>> THEN <<>>
               ELSE <<[files |-> files,
                       tasks |-> [i \in DOMAIN files |-> "photo"],
                       status |-> "done"]>>
    /\ lastOp = IF files = <<>>
                THEN [op |-> "processFiles", src |-> "input", n |-> 0]
                ELSE [op |-> "append", call |-> 1, before |-> 0]
    /\ activePhotoId = NoId
    /\ isGalleryOpen = FALSE
    /\ galleryIndex = 0
    /\ isConverting = FALSE
    /\ index = 0
    /\ isPlaying = FALSE
    /\ playbackRef = 0
    /\ walks = <<>>
    /\ revoked = EmptyBag
    /\ tour = [trek |-> <<>>, selected |-> <<>>, cancelled |-> FALSE]

\* The views of a trek, recomputed as photos are deleted.
NextTrek ==
    /\ ~Crashed
    /\ \E id \in IdSet(photos) : deletePhoto(id)

SpecTrek == InitTrek /\ [][NextTrek]_vars

\* The same with playback walking the trek.
NextTrekWalk ==
    /\ ~Crashed
    /\ \/ \E id \in IdSet(photos) : deletePhoto(id)
       \/ StartPlayback
       \/ DwellTimer

SpecTrekWalk == InitTrek /\ [][NextTrekWalk]_vars

\* A route, its distance recomputed as photos are deleted.
InitRoute == \E files \in SeqsOf(RouteFiles, MaxTrek) : Uploaded(files)

SpecRoute == InitRoute /\ [][NextTrek]_vars

\* A trek with a malformed date, exported as photos are deleted.
InitExport == \E files \in SeqsOf(ExportFiles, MaxTrek) : Uploaded(files)

NextExport ==
    /\ ~Crashed
    /\ \/ \E id \in IdSet(photos) : deletePhoto(id)
       \/ exportGPX

SpecExport == InitExport /\ [][NextExport]_vars

\* The gallery over a trek: opened from the list and the Archive button,
\* browsed and closed, with photos deleted from the list while it is closed
\* (the open gallery covers the list).
NextGallery ==
    /\ ~Crashed
    /\ \/ ListItemClick
       \/ ArchiveButton
       \/ navigate
       \/ onClose
       \/ ~isGalleryOpen /\ \E id \in IdSet(photos) : deletePhoto(id)

SpecGallery == InitTrek /\ [][NextGallery]_vars

\* A trek with zero altitudes and times, exported as photos are deleted.
InitZero == \E files \in SeqsOf(ZeroFiles, MaxTrek) : Uploaded(files)

SpecZero == InitZero /\ [][NextExport]_vars

\* A trek whose photos are deleted while one later drop of at most two
\* files is processed, a marker is selected and playback is switched on.
DeleteFiles == {FileA, FileB}

InitDelete == \E files \in SeqsOf(DeleteFiles, MaxTrek) : Uploaded(files)

NextDelete ==
    /\ ~Crashed
    /\ \/ (Len(calls) <= 1 /\ OnDrop /\ lastOp'.n <= 2)
       \/ \E c \in DOMAIN calls : \E i \in DOMAIN calls[c].files : TaskSettles(c, i)
       \/ \E id \in IdSet(photos) : deletePhoto(id)
       \/ MarkerClick
       \/ StartPlayback

SpecDelete == InitDelete /\ [][NextDelete]_vars

\* The gallery opened on a trek and navigated with its arrows.
NavigateFiles == {FileA, FileB, FileC}

InitNavigate == \E files \in SeqsOf(NavigateFiles, MaxTrek) : Uploaded(files)

NextNavigate ==
    /\ ~Crashed
    /\ \/ ListItemClick
       \/ ArchiveButton
       \/ navigate
       \/ onClose

SpecNavigate == InitNavigate /\ [][NextNavigate]_vars

\* ------------------------------------------------------------------ claims

\* The facts of a call's files, read off the files themselves.
RejectsNormalizing(file) ==
    \/ file.suffix \in {".heic", ".HEIC", ".heif", ".HEIF"} /\ ~file.transcodes
    \/ ~file.loads

FailsExtraction(file) == file.exif = Undefined

Count(files, Test(_)) == Cardinality({i \in DOMAIN files : Test(files[i])})

CallIds(c) == {NewId(c, i) : i \in DOMAIN calls[c].files}

Successes(c) ==
    {NewId(c, i) : i \in {j \in DOMAIN calls[c].files : ~RejectsNormalizing(calls[c].files[j])}}

NoCallRejected == \A c \in DOMAIN calls : calls[c].status # "rejected"

FailsSubStep(file) == FailsExtraction(file) \/ RejectsNormalizing(file)

\* C1 as stated: the append of a call on N files of which K fail, the
\* files that fail extraction (ExifReader.load throws) counted in K, adds
\* exactly N-K records, and no call rejects.
IngestGrowsByExtracted ==
    /\ NoCallRejected
    /\ lastOp.op = "append" =>
          Len(photos) = lastOp.before + Len(calls[lastOp.call].files)
                        - Count(calls[lastOp.call].files, FailsSubStep)

\* C1 amended: the append of a call on N files of which K fail a step that
\* rejects (the HEIC transcoding or the FileReader load) adds exactly N-K
\* records, a file whose EXIF extraction fails among them, and no call
\* rejects.
IngestGrowsByNormalized ==
    /\ NoCallRejected
    /\ lastOp.op = "append" =>
          Len(photos) = lastOp.before + Len(calls[lastOp.call].files)
                        - Count(calls[lastOp.call].files, RejectsNormalizing)

\* A call on three files, one failing extraction and one failing its load,
\* has appended two records.
IngestGrowsWitness ==
    /\ lastOp.op = "append"
    /\ Len(calls[lastOp.call].files) = 3
    /\ Count(calls[lastOp.call].files, FailsExtraction) = 1
    /\ Count(calls[lastOp.call].files, RejectsNormalizing) = 1
    /\ Len(photos) = lastOp.before + 2

\* C2: the records of a call enter the collection in one step, all of its
\* successfully processed files at once, in the step that completes the
\* call; every other step leaves them alone or removes some.
OneTransitionPerIngest ==
    [][\A c \in DOMAIN calls :
          LET before == IdSet(photos) \cap CallIds(c)
              after == IdSet(photos') \cap CallIds(c)
          IN \/ after \subseteq before
             \/ /\ before = {}
                /\ calls[c].status = "running"
                /\ calls'[c].status = "done"
                /\ after = Successes(c)]_vars

\* A call with two successes and a failure is done and both records are in
\* the collection.
OneTransitionWitness ==
    \E c \in DOMAIN calls :
        /\ calls[c].status = "done"
        /\ Cardinality(Successes(c)) = 2
        /\ Len(calls[c].files) = 3
        /\ Successes(c) \subseteq IdSet(photos)
        /\ lastOp.op = "append"

\* C3: while a call has not completed, isConverting is true.
BusyWhileProcessing ==
    (\E c \in DOMAIN calls : calls[c].status = "running") => isConverting

PhotoOf(id) == photos[FindIndex(photos, id) + 1]

\* C4: a file that succeeds is appended with a record that depends on the
\* file alone, whichever siblings fail; a failing file is not appended, and
\* no call is abandoned.
PerFileIsolation ==
    /\ NoCallRejected
    /\ lastOp.op = "append" =>
          LET c == lastOp.call IN
          \A i \in DOMAIN calls[c].files :
              IF RejectsNormalizing(calls[c].files[i])
              THEN NewId(c, i) \notin IdSet(photos)
              ELSE /\ NewId(c, i) \in IdSet(photos)
                   /\ PhotoOf(NewId(c, i)).name = calls[c].files[i].name
    /\ \A j, k \in DOMAIN photos :
          photos[j].name = photos[k].name =>
              /\ photos[j].location = photos[k].location
              /\ photos[j].camera = photos[k].camera
              /\ photos[j].mimeType = photos[k].mimeType

\* The same file was processed next to a sibling that succeeded and next to
\* one that failed, and both of its records are in the collection.
PerFileIsolationWitness ==
    /\ Len(calls) = 2
    /\ \A c \in DOMAIN calls : calls[c].status = "done"
    /\ {calls[c].files : c \in DOMAIN calls} = {<<FileA, FileB>>, <<FileD, FileA>>}
    /\ Cardinality({j \in DOMAIN photos : photos[j].name = "a.jpg"}) = 2

IsPrefix(s, t) == Len(s) <= Len(t) /\ s = SubSeq(t, 1, Len(s))

\* C5: a stop issued while Playing leaves the mode Idle and the selected id
\* as it was, and a walk that a stop found running selects nothing more,
\* whatever follows the stop.
StoppedWalkSelectsNoMore ==
    /\ (lastOp.op = "stopPlayback" /\ lastOp.valid) =>
          ~isPlaying /\ activePhotoId = lastOp.was
    /\ ~(lastOp.op = "select" /\ lastOp.src = "walk" /\ lastOp.stopped)

\* C6: the waypoints the walks selected since the last start from Idle are
\* a prefix of the ordered waypoints of that start, and all of them when a
\* walk ends past its last waypoint with no stop in between.
WalkSelectsPrefix ==
    /\ IsPrefix(tour.selected, tour.trek)
    /\ (lastOp.op = "walkEnds" /\ lastOp.whole /\ ~tour.cancelled) =>
          tour.selected = tour.trek

\* C7, as a run of finitely many steps refutes it: with no further user
\* input the dwell timer is the only step left, so a Playing mode returns
\* to Idle only if a dwell timer is pending.
PlaybackTerminates == (isPlaying /\ ~Crashed) => ENABLED DwellTimer

\* C8: startPlayback() while Playing and stopPlayback() while Idle change
\* neither the mode, the selected id, the collection nor the running walks.
InvalidTransitionsAreNoOps ==
    [][(lastOp'.op \in {"startPlayback", "stopPlayback"} /\ ~lastOp'.valid) =>
          UNCHANGED <<isPlaying, playbackRef, activePhotoId, photos, walks>>]_vars

\* startPlayback() has been issued while a walk was Playing.
InvalidStartWitness ==
    /\ lastOp.op = "startPlayback"
    /\ ~lastOp.valid
    /\ isPlaying
    /\ walks # <<>>

\* C9: a select from the map, the list, the chart or the gallery sets the
\* selected id to the id given and leaves the playback mode as it was.
SelectSetsIdKeepsMode ==
    [][(lastOp'.op = "select" /\ lastOp'.src \in {"marker", "list", "chart", "gallery"}) =>
          /\ activePhotoId' = lastOp'.id
          /\ UNCHANGED <<isPlaying, playbackRef, walks>>]_vars

\* The gallery has selected a photo while a walk was Playing.
SelectWhilePlayingWitness ==
    /\ lastOp.op = "select"
    /\ lastOp.src = "gallery"
    /\ isPlaying
    /\ walks # <<>>
    /\ activePhotoId = lastOp.id
    /\ activePhotoId # Head(walks).validPhotos[Head(walks).i]

\* C10: where a waypoint can be selected from the map, the chart and the
\* gallery, the three selections give the same state.
SelectSourcesConverge ==
    isGalleryOpen =>
        \A id \in Markers \cap ChartPoints :
            /\ MarkerClickResult(id) = ChartHoverResult(id)
            /\ MarkerClickResult(id) = ThumbnailClickResult(FindIndex(sortedPhotos, id))

\* Gallery: currentPhoto, photos[index] of the sorted list the gallery is
\* mounted with; Undefined while it is not mounted or has no such photo.
currentPhoto ==
    IF isGalleryOpen /\ index < Len(sortedPhotos)
    THEN Some(sortedPhotos[index + 1])
    ELSE Undefined

\* C11: while the gallery is open and a waypoint is selected, the photo the
\* gallery displays is the selected photo.
GalleryShowsSelected ==
    (IsDefined(currentPhoto) /\ activePhotoId # NoId) =>
        Get(currentPhoto).id = activePhotoId

\* Clearing a collection that uploads and drops fill and that playback
\* walks.
NextClear ==
    /\ ~Crashed
    /\ \/ Ingestion
       \/ handleClearAll
       \/ Playback

SpecClear == Init /\ [][NextClear]_vars

Urls(s) == {s[i].url : i \in DOMAIN s}

\* C12: a confirmed clear leaves the collection empty, the handle of every
\* former member released, no waypoint selected and the playback mode
\* Idle, whatever was going on when it was issued.
ClearLeavesIdle ==
    [][lastOp'.op = "handleClearAll" =>
          /\ photos' = <<>>
          /\ \A u \in Urls(photos) : CopiesIn(u, revoked') >= 1
          /\ activePhotoId' = NoId
          /\ ~isPlaying']_vars

\* The display handles URL.createObjectURL has given out: one per task that
\* returned its photo.
Created ==
    UNION {{NewId(c, i) : i \in {j \in DOMAIN calls[c].tasks : calls[c].tasks[j] = "photo"}} :
             c \in DOMAIN calls}

\* The handles whose call has not yet appended its photos.
Pending ==
    UNION {{NewId(c, i) : i \in {j \in DOMAIN calls[c].tasks : calls[c].tasks[j] = "photo"}} :
             c \in {k \in DOMAIN calls : calls[k].status = "running"}}

\* C13: only handles that ingestion created are released; a handle whose
\* photo is a member, or is about to be appended, has not been released;
\* a handle whose photo was removed has been released exactly once.
HandleReleasedOnce ==
    /\ BagToSet(revoked) \subseteq Created
    /\ \A u \in Created :
          CopiesIn(u, revoked) = IF u \in Urls(photos) \cup Pending THEN 0 ELSE 1

\* A clear has released the handles of a whole batch while the photo of
\* another call waits to be appended.
HandleReleasedWitness ==
    /\ lastOp.op = "handleClearAll"
    /\ BagCardinality(revoked) >= 2
    /\ Pending # {}

\* C14: no member of the collection has a released handle.
MemberHandleValid ==
    \A i \in DOMAIN photos : CopiesIn(photos[i].url, revoked) = 0

\* A photo has been deleted and its handle released while its sibling of
\* the same batch stays a member.
MemberHandleWitness ==
    /\ lastOp.op = "deletePhoto"
    /\ CopiesIn(lastOp.id, revoked) = 1
    /\ \E c \in DOMAIN calls :
          lastOp.id \in CallIds(c) /\ IdSet(photos) \cap CallIds(c) # {}

TimestampOrZero(p) ==
    IF IsDefined(Get(p.location).timestamp)
    THEN Get(Get(p.location).timestamp).ms
    ELSE 0

\* s holds the photos of the collection that have a location, each once,
\* in ascending order of key, those of equal key in insertion order.
IsTimeOrderedTrek(s) ==
    /\ Len(s) = Cardinality({i \in DOMAIN photos : HasLocation(photos[i])})
    /\ IdSet(s) = {photos[i].id : i \in {j \in DOMAIN photos : HasLocation(photos[j])}}
    /\ \A i \in DOMAIN s : s[i] = PhotoOf(s[i].id)
    /\ \A i, j \in DOMAIN s :
          i < j =>
            /\ TimestampOrZero(s[i]) <= TimestampOrZero(s[j])
            /\ TimestampOrZero(s[i]) = TimestampOrZero(s[j]) =>
                  FindIndex(photos, s[i].id) < FindIndex(photos, s[j].id)

\* C16: the ordered view of the statistics, of the map and of the export is
\* the geotagged members sorted ascending by timestamp, a missing one as 0,
\* members of equal key in insertion order.
TrekIsStableSorted ==
    /\ IsTimeOrderedTrek(gpsPhotos)
    /\ IsTimeOrderedTrek(validPhotos)
    /\ IsTimeOrderedTrek(exportValidPhotos)

\* A trek of three waypoints of which two have the same timestamp and are
\* not neighbours in the collection, and the one between them has none.
TrekSortedWitness ==
    /\ Len(validPhotos) = 3
    /\ TimestampOrZero(validPhotos[1]) = 0
    /\ ~IsDefined(Get(validPhotos[1].location).timestamp)
    /\ TimestampOrZero(validPhotos[2]) = TimestampOrZero(validPhotos[3])
    /\ FindIndex(photos, validPhotos[3].id) > FindIndex(photos, validPhotos[1].id)
    /\ FindIndex(photos, validPhotos[1].id) > FindIndex(photos, validPhotos[2].id)

Geotagged == {i \in DOMAIN photos : IsDefined(photos[i].location)}

\* C17: the statistics are absent if and only if the collection has no or
\* one geotagged member.
StatsAbsentBelowTwo ==
    (stats = Undefined) <=> (Cardinality(Geotagged) \in {0, 1})

\* A delete has left one geotagged member next to a photo without
\* location, and no statistics.
StatsAbsentWitness ==
    /\ lastOp.op = "deletePhoto"
    /\ Len(photos) = 2
    /\ Cardinality(Geotagged) = 1
    /\ stats = Undefined

\* The ids a sequence of ids holds.
Range(s) == {s[i] : i \in DOMAIN s}

\* C18: a member without location is in the flat list and in none of the
\* ordered waypoint view, the input of the statistics, the markers, the
\* export and the lists the playback walks go through.
UnlocatedOnlyInList ==
    \A i \in DOMAIN photos :
        photos[i].location = Undefined =>
            /\ photos[i].id \in IdSet(sortedPhotos)
            /\ photos[i].id \notin IdSet(validPhotos)
            /\ photos[i].id \notin IdSet(gpsPhotos)
            /\ photos[i].id \notin Markers
            /\ photos[i].id \notin IdSet(exportValidPhotos)
            /\ \A k \in DOMAIN walks : photos[i].id \notin Range(walks[k].validPhotos)
            /\ photos[i].id \notin Range(tour.selected)

\* A walk has gone through both waypoints of a collection that also holds
\* a photo without location.
UnlocatedWitness ==
    /\ \E i \in DOMAIN photos : photos[i].location = Undefined
    /\ Len(photos) = 3
    /\ walks # <<>>
    /\ lastOp.op = "select"
    /\ lastOp.src = "walk"
    /\ Len(tour.selected) = 2

\* The first and the last waypoint of the ordered view.
FirstWaypoint == Get(validPhotos[1].location)
LastWaypoint == Get(validPhotos[Len(validPhotos)].location)

\* n is a whole number of minutes nearest to ms milliseconds.
IsRoundedMinutes(n, ms) == 2 * Abs(60000 * n - ms) <= 60000

\* C19: when the statistics are present, the duration is the difference of
\* the timestamps of the last and the first waypoint rounded to whole
\* minutes when both have one, and absent when either has none.
DurationIsRoundedSpan ==
    stats # Undefined =>
        IF IsDefined(FirstWaypoint.timestamp) /\ IsDefined(LastWaypoint.timestamp)
        THEN /\ IsDefined(Get(stats).duration)
             /\ ~Get(Get(stats).duration).nan
             /\ IsRoundedMinutes(Get(Get(stats).duration).n,
                                 Get(LastWaypoint.timestamp).ms - Get(FirstWaypoint.timestamp).ms)
        ELSE Get(stats).duration = Undefined

\* A trek of 90.5 seconds has a duration of 2 minutes.
DurationWitness ==
    /\ stats # Undefined
    /\ IsDefined(FirstWaypoint.timestamp)
    /\ IsDefined(LastWaypoint.timestamp)
    /\ Get(LastWaypoint.timestamp).ms - Get(FirstWaypoint.timestamp).ms = 90500
    /\ Get(stats).duration = Some(Num(2))

\* The altitudes of the waypoints of the ordered view that have one.
Altitudes ==
    {Get(Get(validPhotos[i].location).alt) :
        i \in {j \in DOMAIN validPhotos : IsDefined(Get(validPhotos[j].location).alt)}}

\* C20 as stated: when the statistics are present, the peak elevation is
\* the greatest altitude of the waypoints that have one, and absent
\* exactly when none has.
PeakIsMaxAltitude ==
    stats # Undefined =>
        Get(stats).maxAlt = IF Altitudes = {} THEN Undefined ELSE Some(Max(Altitudes))

\* r, in tenths, is the whole number nearest to m, a half going upwards.
IsRounded(r, m) == r % 10 = 0 /\ m - 5 < r /\ r <= m + 5

\* C20 amended: when the statistics are present, the peak elevation is the
\* greatest altitude of the waypoints that have one, rounded to the nearest
\* whole number, and absent exactly when none has.
PeakIsRoundedMaxAltitude ==
    stats # Undefined =>
        IF Altitudes = {} THEN Get(stats).maxAlt = Undefined
        ELSE /\ IsDefined(Get(stats).maxAlt)
             /\ IsRounded(Get(Get(stats).maxAlt), Max(Altitudes))

\* The greatest altitude of a trek of three, 300.4, is that of its first
\* waypoint, and the peak is 300.
PeakWitness ==
    /\ stats # Undefined
    /\ Len(validPhotos) = 3
    /\ FirstWaypoint.alt = Some(3004)
    /\ Max(Altitudes) = 3004
    /\ Get(stats).maxAlt = Some(3000)

\* The haversine lengths of the n-1 consecutive pairs of an ordered trek,
\* summed.
RECURSIVE SumOfLegs(_, _)
SumOfLegs(trek, n) ==
    IF n < 2 THEN 0
    ELSE SumOfLegs(trek, n - 1)
         + Leg(Get(trek[n - 1].location), Get(trek[n].location))

SamePlace(p, q) ==
    /\ Get(p.location).lat = Get(q.location).lat
    /\ Get(p.location).lng = Get(q.location).lng

At(p, lat, lng) == Get(p.location).lat = lat /\ Get(p.location).lng = lng

LegOfPair(i) ==
    Leg(Get(validPhotos[i].location), Get(validPhotos[i + 1].location))

\* A pair at identical coordinates adds 0 km, and the pair (0,0), (0,1)
\* adds 111.19 km to two decimals.
LegsAreHaversine ==
    /\ R = 6371
    /\ \A i \in 1 .. Len(validPhotos) - 1 :
          /\ SamePlace(validPhotos[i], validPhotos[i + 1]) => LegOfPair(i) = 0
          /\ At(validPhotos[i], 0, 0) /\ At(validPhotos[i + 1], 0, 1)
                => ToFixed2(LegOfPair(i)) = 11119

\* C21 as stated: when the statistics are present, the total distance is the
\* sum of the haversine lengths, with R = 6371 km, of the n-1 consecutive
\* pairs of the time-ordered waypoints; a pair at identical coordinates adds
\* 0 km, and the pair (0,0), (0,1) adds about 111.19 km.  The distance is in
\* hundredths of a km, the lengths in ten-thousandths.
DistanceIsSumOfLegs ==
    /\ IsDefined(stats) =>
          100 * Get(stats).distance = SumOfLegs(validPhotos, Len(validPhotos))
    /\ LegsAreHaversine

\* C21 amended: when the statistics are present, the total distance is that
\* sum rounded to two decimals; a pair at identical coordinates adds 0 km,
\* and the pair (0,0), (0,1) adds about 111.19 km.
DistanceIsRoundedSumOfLegs ==
    /\ IsDefined(stats) =>
          Get(stats).distance = ToFixed2(SumOfLegs(validPhotos, Len(validPhotos)))
    /\ LegsAreHaversine

\* A route of three waypoints whose first pair is (0,0), (0,1), 111.19 km
\* apart, and whose last pair is at identical coordinates: 111.19 km in all.
DistanceWitness ==
    /\ Len(validPhotos) = 3
    /\ At(validPhotos[1], 0, 0)
    /\ At(validPhotos[2], 0, 1)
    /\ SamePlace(validPhotos[2], validPhotos[3])
    /\ IsDefined(stats)
    /\ Get(stats).distance = 11119
    /\ lastOp.op = "append"

\* The document of the last export, if one was written.
Exported == lastOp.op = "exportGPX" /\ IsDefined(lastOp.gpx)

\* C22: after an export of a collection with at least one geotagged
\* waypoint, the document holds exactly one track point per geotagged
\* member, in the order of the time-ordered waypoints of the statistics and
\* the map, each with the latitude and longitude of its member.
ExportIsTrek ==
    lastOp.op = "exportGPX" /\ Len(validPhotos) >= 1 =>
        /\ IsDefined(lastOp.gpx)
        /\ Len(Get(lastOp.gpx)) = Len(validPhotos)
        /\ Len(Get(lastOp.gpx)) = Len(gpsPhotos)
        /\ \A i \in DOMAIN validPhotos :
              /\ Get(lastOp.gpx)[i].lat = Get(validPhotos[i].location).lat
              /\ Get(lastOp.gpx)[i].lon = Get(validPhotos[i].location).lng
              /\ Get(lastOp.gpx)[i].lat = Get(gpsPhotos[i].location).lat
              /\ Get(lastOp.gpx)[i].lon = Get(gpsPhotos[i].location).lng

ExportFrame ==
    UNCHANGED <<photos, activePhotoId, isGalleryOpen, galleryIndex,
                isConverting, index, isPlaying, playbackRef, walks, calls,
                revoked, tour>>

\* C23: an export of a collection with no geotagged waypoint, empty or
\* holding only photos without location, writes no document and changes no
\* state.
ExportOfNothing ==
    [][lastOp'.op = "exportGPX" /\ Len(validPhotos) = 0 =>
          /\ lastOp'.gpx = Undefined
          /\ ~lastOp'.threw
          /\ ExportFrame]_vars

\* An export of a collection of photos that all lack a location.
ExportOfNothingWitness ==
    /\ lastOp.op = "exportGPX"
    /\ Len(photos) >= 1
    /\ Len(validPhotos) = 0
    /\ lastOp.gpx = Undefined

Timestamps ==
    {Get(photos[i].location).timestamp :
        i \in {j \in DOMAIN photos : IsDefined(photos[j].location)}}

\* C24: a photo with a malformed EXIF date has no timestamp, so that the
\* duration is never a non-number and no export fails.
MalformedDateIsNoTimestamp ==
    /\ \A t \in Timestamps : IsDefined(t) => ~Get(t).nan
    /\ IsDefined(stats) /\ IsDefined(Get(stats).duration)
          => ~Get(Get(stats).duration).nan
    /\ lastOp.op = "exportGPX" => ~lastOp.threw

\* C25: the ordered view of every reader is the one recomputed from the
\* current collection.  The list, the markers, the gallery and the export
\* read sortedPhotos, validPhotos and exportValidPhotos, computed from
\* photos; a running walk emits a selection only from a list that is the
\* time-ordered waypoints of the current collection.
WalkViewIsCurrent ==
    [][/\ lastOp'.op = "select"
       /\ lastOp'.src = "walk"
       /\ walks # <<>>
       => Head(walks).validPhotos = Ids(validPhotos)]_vars

\* C26: every processFiles call on a non-empty sequence runs to completion:
\* once started it eventually performs its append, and the busy flag, once
\* set, eventually becomes false, whichever of its files fail.
IngestCompletes ==
    /\ \A c \in 1 .. MaxUploads :
          [](c \in DOMAIN calls
                => <>(c \in DOMAIN calls /\ calls[c].status = "done"))
    /\ [](isConverting => <>(~isConverting))

\* A call of which one file failed has performed its append and the flag is
\* clear.
IngestCompletesWitness ==
    /\ lastOp.op = "append"
    /\ calls[lastOp.call].status = "done"
    /\ \E i \in DOMAIN calls[lastOp.call].files :
          FailsSubStep(calls[lastOp.call].files[i])
    /\ ~isConverting

\* C27: fitAll leaves the collection, the selected id, the playback mode,
\* the busy flag and the gallery state unchanged in every state, and with no
\* geotagged waypoint it issues no framing request.
FitAllFrame ==
    [][lastOp'.op = "fitAllBounds" =>
          /\ UNCHANGED <<photos, activePhotoId, isPlaying, playbackRef, walks,
                         isConverting, isGalleryOpen, galleryIndex, index>>
          /\ Len(validPhotos) = 0 => lastOp'.fitBounds = Undefined]_vars

\* fitAll on the empty collection, while busy, frames nothing.
FitAllNothingWitness ==
    /\ lastOp.op = "fitAllBounds"
    /\ lastOp.fitBounds = Undefined
    /\ isConverting

\* fitAll during playback with the gallery open frames the waypoints.
FitAllWitness ==
    /\ lastOp.op = "fitAllBounds"
    /\ IsDefined(lastOp.fitBounds)
    /\ isPlaying
    /\ isGalleryOpen
    /\ activePhotoId # NoId

\* C28: the number the gallery shows for a geotagged photo is the number of
\* its marker, its position from 1 among the time-ordered waypoints.
MapAndGalleryAgree ==
    IsDefined(currentPhoto) /\ HasLocation(Get(currentPhoto)) =>
        /\ sequenceNumber(Get(currentPhoto).id) = LogAssetNumber
        /\ validPhotos[LogAssetNumber].id = Get(currentPhoto).id

\* A suspended walk that selects a waypoint when its dwell timer fires.
CanEmit(w) == playbackRef # 0 /\ w.i < Len(w.validPhotos)

EmittingWalks == {k \in DOMAIN walks : CanEmit(walks[k])}

\* C29: at most one walk can still emit a selection, whatever the starts and
\* stops, and the end of a walk past its last waypoint leaves a walk started
\* after it, one that no stop has found running, able to go on.
AtMostOneWalk ==
    /\ Cardinality(EmittingWalks) <= 1
    /\ lastOp.op = "walkEnds" /\ lastOp.whole =>
          \A k \in DOMAIN walks :
              ~walks[k].stopped /\ walks[k].i < Len(walks[k].validPhotos)
                  => CanEmit(walks[k])

\* C30: whenever the gallery is open its index is within 0..len-1 of the
\* ordered list it displays, so that it has a current photo.
GalleryIndexInRange ==
    isGalleryOpen =>
        /\ 0 <= index
        /\ index <= Len(sortedPhotos) - 1
        /\ IsDefined(currentPhoto)

\* The file a photo was made from, and the altitude its tags give.
FileOf(p) ==
    LET c == CHOOSE c \in DOMAIN calls : p.id \in CallIds(c)
        i == CHOOSE i \in DOMAIN calls[c].files : NewId(c, i) = p.id
    IN calls[c].files[i]

AltitudeTag(p) == Get(FileOf(p).exif).GPSAltitude

TaggedAltitudes ==
    {Get(AltitudeTag(validPhotos[i])) :
        i \in {j \in DOMAIN validPhotos : IsDefined(AltitudeTag(validPhotos[j]))}}

\* C31: a present altitude is never treated as absent: a waypoint keeps the
\* altitude of its tags, 0 included; a peak of 0 is shown as 0, not as no
\* data; and every waypoint with an altitude gets an elevation element in
\* the export.
AltitudeZeroIsPresent ==
    /\ \A i \in DOMAIN validPhotos :
          Get(validPhotos[i].location).alt = AltitudeTag(validPhotos[i])
    /\ IsDefined(stats) /\ TaggedAltitudes # {} =>
          /\ IsDefined(Get(stats).maxAlt)
          /\ IsRounded(Get(Get(stats).maxAlt), Max(TaggedAltitudes))
          /\ ElevationReadout = Get(stats).maxAlt
    /\ Exported =>
          \A i \in DOMAIN validPhotos :
              IsDefined(AltitudeTag(validPhotos[i]))
                  => IsDefined(Get(lastOp.gpx)[i].ele)

\* The sequence s with its k-th member taken out.
Without(s, k) ==
    [i \in 1..(Len(s) - 1) |-> IF i < k THEN s[i] ELSE s[i + 1]]

\* C32: deletePhoto(id) removes exactly the member with that id and keeps
\* every other member in its insertion order; the selected id becomes
\* absent if it was that id and is unchanged otherwise; the playback mode
\* and the busy flag are unchanged.
DeleteFrame ==
    [][lastOp'.op = "deletePhoto" =>
          /\ \E k \in DOMAIN photos :
                /\ photos[k].id = lastOp'.id
                /\ photos' = Without(photos, k)
          /\ activePhotoId' = IF activePhotoId = lastOp'.id THEN NoId ELSE activePhotoId
          /\ isPlaying' = isPlaying
          /\ isConverting' = isConverting]_vars

\* The selected photo, in the middle of three, has been deleted while
\* playback was on and an ingestion was busy, and the others remain.
DeleteFrameWitness ==
    /\ lastOp.op = "deletePhoto"
    /\ lastOp.id = NewId(1, 2)
    /\ Ids(photos) = <<NewId(1, 1), NewId(1, 3)>>
    /\ activePhotoId = NoId
    /\ isPlaying
    /\ isConverting

\* A photo other than the selected one has been deleted while playback was
\* on and an ingestion was busy: the selection stays.
DeleteOtherWitness ==
    /\ lastOp.op = "deletePhoto"
    /\ lastOp.id = NewId(1, 1)
    /\ activePhotoId = NewId(1, 3)
    /\ Ids(photos) = <<NewId(1, 2), NewId(1, 3)>>
    /\ isPlaying
    /\ isConverting

\* C33: the selected id is always absent or the id of a current member,
\* after any steps of select, delete, clear, ingest and playback; a walk
\* never selects a photo deleted or cleared after it started.
SelectedIsMember == activePhotoId = NoId \/ activePhotoId \in IdSet(photos)

\* The ids of the files of call c, in the order of the input sequence.
FileIds(c) == [i \in DOMAIN calls[c].files |-> NewId(c, i)]

\* What an append step has put behind the members it found.
Appended == SubSeq(photos', Len(photos) + 1, Len(photos'))

\* C34: the records one ingest batch appends are in the order of their
\* files in the input sequence, for every order in which the per-file
\* tasks complete, and they are placed after all members the collection
\* has at the moment of the append.
BatchKeepsFileOrder ==
    [][lastOp'.op = "append" =>
          /\ Len(photos') >= Len(photos)
          /\ SubSeq(photos', 1, Len(photos)) = photos
          /\ IdSet(Appended) \subseteq CallIds(lastOp'.call)
          /\ Ids(Appended) = SelectSeq(FileIds(lastOp'.call),
                                       LAMBDA id : id \in IdSet(Appended))
          /\ \A k \in DOMAIN Appended :
                \E i \in DOMAIN calls[lastOp'.call].files :
                   /\ Appended[k].id = NewId(lastOp'.call, i)
                   /\ Appended[k].name = calls[lastOp'.call].files[i].name]_vars

\* A batch has appended two records, in file order, behind a member that
\* was there before.
BatchOrderWitness ==
    /\ lastOp.op = "append"
    /\ lastOp.before > 0
    /\ Len(photos) >= lastOp.before + 2
    /\ photos[lastOp.before + 1].id < photos[lastOp.before + 2].id

\* The tasks of a batch complete out of file order: the second has its
\* photo while the first still awaits.
OutOfOrderWitness ==
    \E c \in DOMAIN calls :
        /\ Len(calls[c].files) >= 2
        /\ calls[c].tasks[1] = "s1"
        /\ calls[c].tasks[2] = "photo"

\* How many members of s have the given id.
Occurrences(s, id) == Cardinality({i \in DOMAIN s : s[i].id = id})

\* C35: no lost update.  When ingest batches overlap with each other or
\* with deletes, the append of a batch adds every successfully processed
\* file of the batch exactly once and keeps every member it finds; a
\* delete removes its photo and nothing else; and a photo that was removed
\* (its handle is released) is not a member again after any later step.
NoLostUpdate ==
    [][/\ lastOp'.op = "append" =>
             /\ \A id \in Successes(lastOp'.call) : Occurrences(photos', id) = 1
             /\ \A id \in IdSet(photos) : Occurrences(photos', id) = 1
             /\ IdSet(photos') = IdSet(photos) \cup Successes(lastOp'.call)
       /\ lastOp'.op = "deletePhoto" =>
             IdSet(photos') = IdSet(photos) \ {lastOp'.id}
       /\ \A id \in BagToSet(revoked') : id \notin IdSet(photos')]_vars

\* A batch that was running while a photo of an earlier batch was deleted
\* has appended its two records: the deleted photo is still gone and the
\* other member of the earlier batch is still there.
NoLostUpdateWitness ==
    /\ lastOp.op = "append"
    /\ lastOp.call = 2
    /\ Cardinality(Successes(2)) >= 2
    /\ Successes(2) \subseteq IdSet(photos)
    /\ \E id \in Successes(1) : CopiesIn(id, revoked) = 1 /\ id \notin IdSet(photos)
    /\ \E id \in Successes(1) : id \in IdSet(photos)

\* Two batches overlap: both are running.
OverlapWitness ==
    /\ Len(calls) >= 2
    /\ calls[1].status = "running"
    /\ calls[2].status = "running"

\* A photo is deleted while a later batch is between its start and its
\* append.
DeleteDuringBatchWitness ==
    /\ lastOp.op = "deletePhoto"
    /\ \E c \in DOMAIN calls : calls[c].status = "running"

\* Every timestamp of a geotagged photo is a time of at least low
\* milliseconds.
TimestampsFrom(low) ==
    \A t \in Timestamps : IsDefined(t) => ~Get(t).nan /\ Get(t).ms >= low

SomeUndated == \E t \in Timestamps : ~IsDefined(t)

UndatedLeads ==
    /\ ~IsDefined(FirstWaypoint.timestamp)
    /\ IsDefined(stats)
    /\ ~IsDefined(Get(stats).duration)

\* C36 as stated: with all timestamps non-negative and at least 2 geotagged
\* waypoints, if a geotagged waypoint lacks a timestamp then an undated
\* waypoint is first in the time-ordered trek and the duration is absent.
UndatedFirstNonNegative ==
    Len(validPhotos) >= 2 /\ TimestampsFrom(0) /\ SomeUndated => UndatedLeads

\* C36 amended: with all timestamps positive and at least 2 geotagged
\* waypoints, if a geotagged waypoint lacks a timestamp then an undated
\* waypoint is first in the time-ordered trek and the duration is absent.
UndatedFirstPositive ==
    Len(validPhotos) >= 2 /\ TimestampsFrom(1) /\ SomeUndated => UndatedLeads

\* An undated waypoint added after two dated ones leads the trek, and no
\* duration is reported.
UndatedFirstWitness ==
    /\ Len(photos) = 3
    /\ Len(validPhotos) = 3
    /\ TimestampsFrom(1)
    /\ IsDefined(Get(photos[1].location).timestamp)
    /\ IsDefined(Get(photos[2].location).timestamp)
    /\ ~IsDefined(Get(photos[3].location).timestamp)
    /\ validPhotos[1].id = photos[3].id
    /\ IsDefined(stats)
    /\ ~IsDefined(Get(stats).duration)

\* A waypoint dated at the epoch added before an undated one stays first,
\* and a duration is reported.
EpochBeforeUndated ==
    /\ Len(validPhotos) >= 2
    /\ TimestampsFrom(0)
    /\ SomeUndated
    /\ IsDefined(FirstWaypoint.timestamp)
    /\ IsDefined(stats)
    /\ IsDefined(Get(stats).duration)

RECURSIVE NextTimes(_, _, _)
\* The index after k presses of next from index i over n photos.
NextTimes(i, n, k) ==
    IF k = 0 THEN i ELSE NextTimes(newIdx(i, n, "next"), n, k - 1)

\* C37: gallery navigation is cyclic over the ordered list of n photos:
\* next from the last index goes to 0, prev from 0 goes to n-1, prev undoes
\* next, n presses of next return to the starting photo, and every
\* navigation step displays the photo at the new index and reports its id
\* through select.
GalleryNavigationIsCyclic ==
    [][/\ IsDefined(currentPhoto) =>
             \A n \in {Len(sortedPhotos)} :
                /\ index = n - 1 => NewIdx("next") = 0
                /\ index = 0 => NewIdx("prev") = n - 1
                /\ newIdx(NewIdx("next"), n, "prev") = index
                /\ NextTimes(index, n, n) = index
                /\ \A k \in 1 .. n - 1 : NextTimes(index, n, k) # index
       /\ lastOp'.op = "select" /\ lastOp'.src = "gallery" =>
             /\ photos' = photos
             /\ isGalleryOpen'
             /\ index' \in {NewIdx("next"), NewIdx("prev")}
             /\ index' < Len(sortedPhotos)
             /\ activePhotoId' = sortedPhotos[index' + 1].id
             /\ lastOp'.id = sortedPhotos[index' + 1].id]_vars

\* The gallery has gone from the last of three photos, which differ from
\* their insertion order, round to the first, and the first is selected.
GalleryWrapWitness ==
    /\ isGalleryOpen
    /\ Len(sortedPhotos) = 3
    /\ Ids(sortedPhotos) # Ids(photos)
    /\ lastOp.op = "select"
    /\ lastOp.src = "gallery"
    /\ index = 0
    /\ activePhotoId = sortedPhotos[1].id
    /\ lastOp.id = sortedPhotos[1].id

====
